---- MODULE Spec2Model ----
(***************************************************************************)
(* pylox: a tree-walking interpreter for lox.                              *)
(*                                                                         *)
(* The module models five parts of the program, each with its own          *)
(* specification over its own variables:                                   *)
(*   SpecErr    src/src/error.py        ErrorHandler                       *)
(*   SpecParse  src/src/parser.py       Parser.parse                       *)
(*   SpecEnv    src/src/environment.py  Environment, and the interpret     *)
(*              src/src/node.py         methods of the tree nodes          *)
(*   SpecRun    src/pylox.py            run, and Interpreter.interpret     *)
(*              src/src/interpreter.py                                     *)
(*   SpecEval   src/src/node.py         the evaluation of expressions, by  *)
(*              src/src/interpreter.py  the nodes and by one Interpreter   *)
(* A python exception is modelled as a value of the field exc; "none"      *)
(* means that the call returned normally.                                  *)
(***************************************************************************)
EXTENDS Integers, Sequences, FiniteSets, TLC

VARIABLES
    eh,             \* SpecErr: the ErrorHandler object [limit, queue]
    eh_call,        \* SpecErr: the last call on eh, its arguments and result
    eh_accepted,    \* SpecErr: the accepted pushes since creation or reset
    eh_created,     \* SpecErr: the limit eh was created with
    arg_tokens,     \* SpecParse: the tokens handed to Parser.parse
    arg_limit,      \* SpecParse: the limit handed to Parser.parse
    prs,            \* SpecParse: the Parser object [err, tokens, i]
    prs_call,       \* SpecParse: what the call of parse returned or raised
    envs,           \* SpecEnv: the heap of Environment objects
    rt,             \* SpecEnv: the ErrorHandler handed to interpret as err
    env_call,       \* SpecEnv: the last call, its arguments and result
    run_tokens,     \* SpecRun: the tokens of the source handed to run
    run_env,        \* SpecRun: the global env of pylox.py
    run_call,       \* SpecRun: the last call and its result
    ev_itr,         \* SpecEval: the Interpreter object [err]
    ev_call         \* SpecEval: the last evaluation and its result

ehvars == <<eh, eh_call, eh_accepted, eh_created>>

prsvars == <<arg_tokens, arg_limit, prs, prs_call>>

envvars == <<envs, rt, env_call>>

runvars == <<run_tokens, run_env, run_call>>

evalvars == <<ev_itr, ev_call>>

vars == <<ehvars, prsvars, envvars, runvars, evalvars>>

(***************************************************************************)
(* Bounds of the model.                                                    *)
(***************************************************************************)
MaxLimit == 2       \* the limits handed to ErrorHandler() are -1..MaxLimit
MaxCap == 3         \* grow() is not called beyond this capacity
MaxQueue == 3       \* push() is not called on a longer queue
MaxLen == 4         \* tokens before the end marker in a free token sequence
MaxEnvs == 2        \* Environment objects alive at once

(***************************************************************************)
(* src/src/error.py                                                        *)
(***************************************************************************)
DefaultLimit == 10

\* "line {}: {}".format(line, error) and "{}".format(error)
FormatLine(line, error) == "line " \o ToString(line) \o ": " \o error

FormatBare(error) == error

ErrorHandler(limit) == [limit |-> limit, queue |-> <<>>]

\* push with the capacity test off by one: a full queue still accepts
push_accepts_when_full(h, line, error) ==
    IF Len(h.queue) > h.limit /\ h.limit >= 0
    THEN [h |-> h, ret |-> FALSE]
    ELSE LET msg == IF line >= 0 THEN FormatLine(line, error)
                                 ELSE FormatBare(error)
         IN  [h |-> [h EXCEPT !.queue = Append(h.queue, msg)], ret |-> TRUE]

\* push that puts the new message at the head of the queue
push_at_head(h, line, error) ==
    IF Len(h.queue) = h.limit
    THEN [h |-> h, ret |-> FALSE]
    ELSE LET msg == IF line >= 0 THEN FormatLine(line, error)
                                 ELSE FormatBare(error)
         IN  [h |-> [h EXCEPT !.queue = <<msg>> \o h.queue], ret |-> TRUE]

\* returns the handler after the call and the call's return value
push(h, line, error) ==
    IF Len(h.queue) = h.limit
    THEN [h |-> h, ret |-> FALSE]
    ELSE LET msg == IF line >= 0 THEN FormatLine(line, error)
                                 ELSE FormatBare(error)
         IN  [h |-> [h EXCEPT !.queue = Append(h.queue, msg)], ret |-> TRUE]

\* grow that adds inc whatever its sign
grow_by_any(h, inc) ==
    [h |-> [h EXCEPT !.limit = h.limit + inc], ret |-> inc > 0]

grow(h, inc) ==
    IF inc > 0
    THEN [h |-> [h EXCEPT !.limit = h.limit + inc], ret |-> TRUE]
    ELSE [h |-> h, ret |-> FALSE]

\* reset that runs __init__ again: the capacity is back to the default
reset_reinitialises(h) == ErrorHandler(DefaultLimit)

reset(h) == [h EXCEPT !.queue = <<>>]

ErrorHandler_bool(h) == h.queue # <<>>

ErrorHandler_iter(h) == h.queue

(***************************************************************************)
(* src/src/tokenizer.py: the tokens the parser consumes.  A token type is  *)
(* the name of its TokenType member.                                       *)
(***************************************************************************)
Token(type, line, lexeme, literal) ==
    [type |-> type, line |-> line, lexeme |-> lexeme, literal |-> literal]

\* runtime values: a python float, str, bool or None.  A float is the
\* rational n / d in lowest terms with d > 0 (the values of the model are
\* small: rounding, inf and nan do not occur)
RECURSIVE Gcd(_, _)
Gcd(a, b) == IF b = 0 THEN a ELSE Gcd(b, a % b)

Abs(a) == IF a < 0 THEN -a ELSE a

Rat(n, d) ==
    LET g == Gcd(Abs(n), Abs(d))
        sgn == IF d < 0 THEN -1 ELSE 1
    IN  [t |-> "float", n |-> sgn * (n \div g), d |-> sgn * (d \div g)]

Num(n) == [t |-> "float", n |-> n, d |-> 1]
Str(x) == [t |-> "str", s |-> x]
Bool(b) == [t |-> "bool", b |-> b]
Nil == [t |-> "NoneType"]

\* TokenType values: the lexeme of a token whose text is fixed by its type
TokenTypeValue(type) ==
    CASE type = "LEFT_PAREN" -> "("
      [] type = "RIGHT_PAREN" -> ")"
      [] type = "LEFT_BRACE" -> "{"
      [] type = "RIGHT_BRACE" -> "}"
      [] type = "COMMA" -> ","
      [] type = "DOT" -> "."
      [] type = "MINUS" -> "-"
      [] type = "PLUS" -> "+"
      [] type = "SEMICOLON" -> ";"
      [] type = "SLASH" -> "/"
      [] type = "STAR" -> "*"
      [] type = "BANG" -> "!"
      [] type = "BANG_EQUAL" -> "!="
      [] type = "EQUAL" -> "="
      [] type = "EQUAL_EQUAL" -> "=="
      [] type = "GREATER" -> ">"
      [] type = "GREATER_EQUAL" -> ">="
      [] type = "LESS" -> "<"
      [] type = "LESS_EQUAL" -> "<="
      [] type = "AND" -> "and"
      [] type = "CLASS" -> "class"
      [] type = "ELSE" -> "else"
      [] type = "FALSE" -> "false"
      [] type = "FUN" -> "fun"
      [] type = "FOR" -> "for"
      [] type = "IF" -> "if"
      [] type = "NIL" -> "nil"
      [] type = "OR" -> "or"
      [] type = "PRINT" -> "print"
      [] type = "RETURN" -> "return"
      [] type = "SUPER" -> "super"
      [] type = "THIS" -> "this"
      [] type = "TRUE" -> "true"
      [] type = "VAR" -> "var"
      [] type = "WHILE" -> "while"

(***************************************************************************)
(* src/src/node.py: the constructors of the tree nodes.  None is python's  *)
(* None where a node or a token is expected.                               *)
(***************************************************************************)
None == [kind |-> "None"]

Literal(val) == [kind |-> "Literal", val |-> val]
Variable(name) == [kind |-> "Variable", name |-> name]
Unary(operator, right) ==
    [kind |-> "Unary", operator |-> operator, right |-> right]
Binary(left, operator, right) ==
    [kind |-> "Binary", left |-> left, operator |-> operator, right |-> right]
Grouping(val) == [kind |-> "Grouping", val |-> val]
Assignment(lval, rval) == [kind |-> "Assignment", lval |-> lval, rval |-> rval]
Generic(expr) == [kind |-> "Generic", expr |-> expr]
Printer(expr) == [kind |-> "Printer", expr |-> expr]
VariableDeclaration(name, initializer) ==
    [kind |-> "VariableDeclaration", name |-> name, initializer |-> initializer]
Block(statements) == [kind |-> "Block", statements |-> statements]

\* parser.py imports Logical, Branch and Loop from src.node, which does not
\* define them; the parser's calls fix their fields
Logical(left, operator, right) ==
    [kind |-> "Logical", left |-> left, operator |-> operator, right |-> right]
Branch(condition, then_branch, else_branch) ==
    [kind |-> "Branch", condition |-> condition, then_branch |-> then_branch,
     else_branch |-> else_branch]
Loop(condition, body) == [kind |-> "Loop", condition |-> condition, body |-> body]

(***************************************************************************)
(* src/src/parser.py.  The parser's state s is [i, err, exc]: the index    *)
(* into the tokens (0-based as in the source), its ErrorHandler and the    *)
(* exception that is unwinding.  Every method is the identity on a state   *)
(* with an exception.  A method that returns a node returns [n, s].        *)
(***************************************************************************)
Raised(s) == s.exc # "none"

Raise(s, e) == [s EXCEPT !.exc = e]

curr_type(toks, s) == toks[s.i + 1].type

curr_token(toks, s) == toks[s.i + 1]

advance(toks, s) ==
    IF Raised(s) THEN s
    ELSE IF s.i + 1 < Len(toks) THEN [s EXCEPT !.i = s.i + 1]
    ELSE Raise(s, "AssertionError")

\* [n |-> the previous token, s |-> s], or the failed assertion
prev_token(toks, s) ==
    IF Raised(s) THEN [n |-> None, s |-> s]
    ELSE IF s.i - 1 >= 0 THEN [n |-> toks[s.i], s |-> s]
    ELSE [n |-> None, s |-> Raise(s, "AssertionError")]

SyncTypes == {"CLASS", "FUN", "VAR", "FOR", "IF", "WHILE", "PRINT", "RETURN"}

RECURSIVE trap_while(_, _)

\* the loop of trap without its test for the end marker
trap_while_past_end(toks, s) ==
    IF Raised(s) THEN s
    ELSE IF curr_type(toks, s) \in SyncTypes THEN s
    ELSE trap_while(toks, advance(toks, s))

trap_while(toks, s) ==
    IF Raised(s) THEN s
    ELSE IF curr_type(toks, s) \in SyncTypes THEN s
    ELSE IF curr_type(toks, s) = "EOF" THEN Raise(s, "ParseError")
    ELSE trap_while(toks, advance(toks, s))

\* trap that enters panic mode without pushing its diagnostic
trap_without_push(toks, s, msg) ==
    IF Raised(s) THEN s ELSE trap_while(toks, s)

\* self.error is no attribute of Parser: the call after grow raises
trap(toks, s, msg) ==
    IF Raised(s) THEN s
    ELSE LET tok == toks[s.i + 1]
             line == tok.line
             r == push(s.err, line, msg)
         IN  IF ~r.ret
             THEN Raise([s EXCEPT !.err = grow(s.err, 1).h], "AttributeError")
             ELSE trap_while(toks, [s EXCEPT !.err = r.h])

check_semicolon(toks, s) ==
    IF Raised(s) THEN s
    ELSE IF curr_type(toks, s) = "SEMICOLON" THEN advance(toks, s)
    ELSE LET tok == curr_token(toks, s) IN
         IF tok.type = "EOF"
         THEN trap(toks, s, "expected ';' at end of file")
         ELSE trap(toks, s, "expected ';' before " \o tok.lexeme)

\* self.<method>(): a method of the Parser, looked up by its name at the call
RECURSIVE call(_, _, _)

RECURSIVE block_stmt_while(_, _, _), equality_while(_, _, _),
          comparison_while(_, _, _), term_while(_, _, _),
          factor_while(_, _, _), program_while(_, _, _)

\* an iteration that returns without consuming a token on a handler with no
\* threshold (limit < 0) is repeated forever: the call does not return
NoProgress(s, t) == ~Raised(t) /\ t.i = s.i /\ t.err.limit < 0

\* the state t an iteration that started in s left, the iterations that
\* returned normally on the token they started on counted in stalls
Stalled(s, t) ==
    IF ~Raised(t) /\ t.i = s.i THEN [t EXCEPT !.stalls = @ + 1] ELSE t

program_while(toks, s, tree) ==
    IF Raised(s) THEN [n |-> tree, s |-> s]
    ELSE IF curr_type(toks, s) = "EOF" THEN [n |-> tree, s |-> s]
    ELSE LET r == call("declaration", toks, s) IN
         IF NoProgress(s, r.s)
         THEN [n |-> tree, s |-> Raise(Stalled(s, r.s), "NoReturn")]
         ELSE program_while(toks, Stalled(s, r.s), Append(tree, r.n))

program(toks, s) == program_while(toks, s, <<>>)

declaration(toks, s) ==
    IF Raised(s) THEN [n |-> None, s |-> s]
    ELSE IF curr_type(toks, s) = "VAR"
    THEN call("var_declaration", toks, advance(toks, s))
    ELSE call("statement", toks, s)

NilInitializer == Literal(Token("NIL", -1, "nil", Nil))

var_declaration(toks, s) ==
    IF Raised(s) THEN [n |-> None, s |-> s]
    ELSE IF curr_type(toks, s) = "IDENTIFIER"
    THEN LET name == curr_token(toks, s)
             s1 == advance(toks, s)
             init == IF curr_type(toks, s1) = "EQUAL"
                     THEN call("expression", toks, advance(toks, s1))
                     ELSE [n |-> NilInitializer, s |-> s1]
         IN  [n |-> VariableDeclaration(name, init.n),
              s |-> check_semicolon(toks, init.s)]
    ELSE [n |-> VariableDeclaration(None, NilInitializer),
          s |-> trap(toks, s, "missing variable identifier")]

statement(toks, s) ==
    IF Raised(s) THEN [n |-> None, s |-> s]
    ELSE IF curr_type(toks, s) = "PRINT"
    THEN call("print_stmt", toks, advance(toks, s))
    ELSE IF curr_type(toks, s) = "LEFT_BRACE"
    THEN LET stmt_list == call("block_stmt", toks, advance(toks, s))
         IN  [n |-> Block(stmt_list.n), s |-> stmt_list.s]
    ELSE IF curr_type(toks, s) = "IF"
    THEN call("branch_stmt", toks, advance(toks, s))
    ELSE IF curr_type(toks, s) = "WHILE"
    THEN call("while_stmt", toks, advance(toks, s))
    ELSE call("generic_stmt", toks, s)

print_stmt(toks, s) ==
    IF Raised(s) THEN [n |-> None, s |-> s]
    ELSE LET e == call("expression", toks, s)
         IN  [n |-> Printer(e.n), s |-> check_semicolon(toks, e.s)]

block_stmt_while(toks, s, stmt_list) ==
    IF Raised(s) THEN [n |-> stmt_list, s |-> s]
    ELSE IF curr_type(toks, s) = "RIGHT_BRACE" THEN [n |-> stmt_list, s |-> s]
    ELSE LET r == call("declaration", toks, s) IN
         IF NoProgress(s, r.s)
         THEN [n |-> stmt_list, s |-> Raise(Stalled(s, r.s), "NoReturn")]
         ELSE block_stmt_while(toks, Stalled(s, r.s), Append(stmt_list, r.n))

block_stmt(toks, s) ==
    IF Raised(s) THEN [n |-> <<>>, s |-> s]
    ELSE LET w == block_stmt_while(toks, s, <<>>) IN
         IF Raised(w.s) THEN w
         ELSE IF curr_type(toks, w.s) = "EOF"
         THEN [n |-> w.n, s |-> trap(toks, w.s, "expected '}' at end of file")]
         ELSE IF curr_type(toks, w.s) # "RIGHT_BRACE"
         THEN [n |-> w.n,
               s |-> trap(toks, w.s,
                          "expected '}' at " \o curr_token(toks, w.s).lexeme)]
         ELSE [n |-> w.n, s |-> advance(toks, w.s)]

branch_stmt(toks, s) ==
    IF Raised(s) THEN [n |-> None, s |-> s]
    ELSE IF curr_type(toks, s) # "LEFT_PAREN"
    THEN [n |-> Branch(None, None, None),
          s |-> trap(toks, s, "expected open parenthesis after 'if'")]
    ELSE LET condition == call("expression", toks, advance(toks, s)) IN
         IF Raised(condition.s) THEN condition
         ELSE IF curr_type(toks, condition.s) # "RIGHT_PAREN"
         THEN [n |-> Branch(None, None, None),
               s |-> trap(toks, condition.s,
                          "expected close parenthesis after condition")]
         ELSE LET then_branch ==
                      call("statement", toks, advance(toks, condition.s)) IN
              IF Raised(then_branch.s) THEN then_branch
              ELSE IF curr_type(toks, then_branch.s) = "ELSE"
              THEN LET else_branch ==
                           call("statement", toks, advance(toks, then_branch.s))
                   IN  [n |-> Branch(condition.n, then_branch.n, else_branch.n),
                        s |-> else_branch.s]
              ELSE [n |-> Branch(condition.n, then_branch.n, None),
                    s |-> then_branch.s]

while_stmt(toks, s) ==
    IF Raised(s) THEN [n |-> None, s |-> s]
    ELSE IF curr_type(toks, s) # "LEFT_PAREN"
    THEN [n |-> Loop(None, None),
          s |-> trap(toks, s, "expected open parenthesis after 'if'")]
    ELSE LET condition == call("expression", toks, advance(toks, s)) IN
         IF Raised(condition.s) THEN condition
         ELSE IF curr_type(toks, condition.s) # "RIGHT_PAREN"
         THEN [n |-> Loop(None, None),
               s |-> trap(toks, condition.s,
                          "expected close parenthesis after condition")]
         ELSE LET body == call("statement", toks, advance(toks, condition.s))
              IN  [n |-> Loop(condition.n, body.n), s |-> body.s]

generic_stmt(toks, s) ==
    IF Raised(s) THEN [n |-> None, s |-> s]
    ELSE LET e == call("expression", toks, s)
         IN  [n |-> Generic(e.n), s |-> check_semicolon(toks, e.s)]

expression(toks, s) == call("assignment", toks, s)

\* assignment that looks through parentheses for its target
assignment_unwraps_grouping(toks, s) ==
    IF Raised(s) THEN [n |-> None, s |-> s]
    ELSE LET lval == call("logical_or", toks, s) IN
         IF Raised(lval.s) THEN lval
         ELSE IF curr_type(toks, lval.s) = "EQUAL"
         THEN LET rval == call("assignment", toks, advance(toks, lval.s)) IN
              IF Raised(rval.s) THEN rval
              ELSE IF lval.n.kind = "Variable"
              THEN [n |-> Assignment(lval.n.name, rval.n), s |-> rval.s]
              ELSE IF lval.n.kind = "Grouping" /\ lval.n.val.kind = "Variable"
              THEN [n |-> Assignment(lval.n.val.name, rval.n), s |-> rval.s]
              ELSE [n |-> lval.n,
                    s |-> trap(toks, rval.s,
                               "assignment target is not an l-value")]
         ELSE lval

assignment(toks, s) ==
    IF Raised(s) THEN [n |-> None, s |-> s]
    ELSE LET lval == call("logical_or", toks, s) IN
         IF Raised(lval.s) THEN lval
         ELSE IF curr_type(toks, lval.s) = "EQUAL"
         THEN LET rval == call("assignment", toks, advance(toks, lval.s)) IN
              IF Raised(rval.s) THEN rval
              ELSE IF lval.n.kind = "Variable"
              THEN [n |-> Assignment(lval.n.name, rval.n), s |-> rval.s]
              ELSE [n |-> lval.n,
                    s |-> trap(toks, rval.s,
                               "assignment target is not an l-value")]
         ELSE lval

\* an "if", not a loop: one "or" at most
logical_or(toks, s) ==
    IF Raised(s) THEN [n |-> None, s |-> s]
    ELSE LET expr == call("logical_and", toks, s) IN
         IF Raised(expr.s) THEN expr
         ELSE IF curr_type(toks, expr.s) = "OR"
         THEN LET s1 == advance(toks, expr.s)
                  tok == prev_token(toks, s1)
                  right == call("logical_and", toks, tok.s)
              IN  [n |-> Logical(expr.n, tok.n, right.n), s |-> right.s]
         ELSE expr

\* an "if" whose right operand is logical_and itself
logical_and(toks, s) ==
    IF Raised(s) THEN [n |-> None, s |-> s]
    ELSE LET expr == call("equality", toks, s) IN
         IF Raised(expr.s) THEN expr
         ELSE IF curr_type(toks, expr.s) = "AND"
         THEN LET s1 == advance(toks, expr.s)
                  tok == prev_token(toks, s1)
                  right == call("logical_and", toks, tok.s)
              IN  [n |-> Logical(expr.n, tok.n, right.n), s |-> right.s]
         ELSE expr

equality_while(toks, s, expr) ==
    IF Raised(s) THEN [n |-> expr, s |-> s]
    ELSE IF curr_type(toks, s) \in {"EQUAL_EQUAL", "BANG_EQUAL"}
    THEN LET s1 == advance(toks, s)
             operator == prev_token(toks, s1)
             right == call("comparison", toks, operator.s)
         IN  equality_while(toks, right.s, Binary(expr, operator.n, right.n))
    ELSE [n |-> expr, s |-> s]

equality(toks, s) ==
    IF Raised(s) THEN [n |-> None, s |-> s]
    ELSE LET expr == call("comparison", toks, s)
         IN  equality_while(toks, expr.s, expr.n)

comparison_while(toks, s, expr) ==
    IF Raised(s) THEN [n |-> expr, s |-> s]
    ELSE IF curr_type(toks, s) \in
                {"GREATER", "GREATER_EQUAL", "LESS", "LESS_EQUAL"}
    THEN LET s1 == advance(toks, s)
             operator == prev_token(toks, s1)
             right == call("term", toks, operator.s)
         IN  comparison_while(toks, right.s, Binary(expr, operator.n, right.n))
    ELSE [n |-> expr, s |-> s]

comparison(toks, s) ==
    IF Raised(s) THEN [n |-> None, s |-> s]
    ELSE LET expr == call("term", toks, s)
         IN  comparison_while(toks, expr.s, expr.n)

\* the loop of term taking "*" and "/" as well, at its own layer
term_while_flat(toks, s, expr) ==
    IF Raised(s) THEN [n |-> expr, s |-> s]
    ELSE IF curr_type(toks, s) \in {"PLUS", "MINUS", "STAR", "SLASH"}
    THEN LET s1 == advance(toks, s)
             operator == prev_token(toks, s1)
             right == call("unary", toks, operator.s)
         IN  term_while(toks, right.s, Binary(expr, operator.n, right.n))
    ELSE [n |-> expr, s |-> s]

term_while(toks, s, expr) ==
    IF Raised(s) THEN [n |-> expr, s |-> s]
    ELSE IF curr_type(toks, s) \in {"PLUS", "MINUS"}
    THEN LET s1 == advance(toks, s)
             operator == prev_token(toks, s1)
             right == call("factor", toks, operator.s)
         IN  term_while(toks, right.s, Binary(expr, operator.n, right.n))
    ELSE [n |-> expr, s |-> s]

term(toks, s) ==
    IF Raised(s) THEN [n |-> None, s |-> s]
    ELSE LET expr == call("factor", toks, s)
         IN  term_while(toks, expr.s, expr.n)

factor_while(toks, s, expr) ==
    IF Raised(s) THEN [n |-> expr, s |-> s]
    ELSE IF curr_type(toks, s) \in {"STAR", "SLASH"}
    THEN LET s1 == advance(toks, s)
             operator == prev_token(toks, s1)
             right == call("unary", toks, operator.s)
         IN  factor_while(toks, right.s, Binary(expr, operator.n, right.n))
    ELSE [n |-> expr, s |-> s]

factor(toks, s) ==
    IF Raised(s) THEN [n |-> None, s |-> s]
    ELSE LET expr == call("unary", toks, s)
         IN  factor_while(toks, expr.s, expr.n)

unary(toks, s) ==
    IF Raised(s) THEN [n |-> None, s |-> s]
    ELSE IF curr_type(toks, s) \in {"BANG", "MINUS"}
    THEN LET s1 == advance(toks, s)
             operator == prev_token(toks, s1)
             right == call("unary", toks, operator.s)
         IN  [n |-> Unary(operator.n, right.n), s |-> right.s]
    ELSE call("primary", toks, s)

primary(toks, s) ==
    IF Raised(s) THEN [n |-> None, s |-> s]
    ELSE IF curr_type(toks, s) \in {"NUMBER", "STRING", "NIL", "TRUE", "FALSE"}
    THEN [n |-> Literal(curr_token(toks, s)), s |-> advance(toks, s)]
    ELSE IF curr_type(toks, s) = "LEFT_PAREN"
    THEN LET inner == call("expression", toks, advance(toks, s)) IN
         IF Raised(inner.s) THEN inner
         ELSE IF curr_type(toks, inner.s) = "RIGHT_PAREN"
         THEN [n |-> Grouping(inner.n), s |-> advance(toks, inner.s)]
         ELSE [n |-> Grouping(inner.n),
               s |-> trap(toks, inner.s,
                          "missing right parenthesis for grouped expression")]
    ELSE IF curr_type(toks, s) = "IDENTIFIER"
    THEN [n |-> Variable(curr_token(toks, s)), s |-> advance(toks, s)]
    ELSE IF curr_type(toks, s) = "EOF"
    THEN LET tok == prev_token(toks, s)
             t == trap(toks, tok.s,
                       "misplaced symbol '" \o tok.n.lexeme
                           \o "' at end of file")
         IN  \* trap at EOF never returns: expr stays unbound otherwise
             [n |-> None,
              s |-> IF Raised(t) THEN t ELSE Raise(t, "UnboundLocalError")]
    ELSE [n |-> None,
          s |-> trap(toks, s,
                     "misplaced symbol '" \o curr_token(toks, s).lexeme \o "'")]

call(method, toks, s) ==
    CASE method = "program" -> program(toks, s)
      [] method = "declaration" -> declaration(toks, s)
      [] method = "var_declaration" -> var_declaration(toks, s)
      [] method = "statement" -> statement(toks, s)
      [] method = "print_stmt" -> print_stmt(toks, s)
      [] method = "block_stmt" -> block_stmt(toks, s)
      [] method = "branch_stmt" -> branch_stmt(toks, s)
      [] method = "while_stmt" -> while_stmt(toks, s)
      [] method = "generic_stmt" -> generic_stmt(toks, s)
      [] method = "expression" -> expression(toks, s)
      [] method = "assignment" -> assignment(toks, s)
      [] method = "logical_or" -> logical_or(toks, s)
      [] method = "logical_and" -> logical_and(toks, s)
      [] method = "equality" -> equality(toks, s)
      [] method = "comparison" -> comparison(toks, s)
      [] method = "term" -> term(toks, s)
      [] method = "factor" -> factor(toks, s)
      [] method = "unary" -> unary(toks, s)
      [] method = "primary" -> primary(toks, s)

\* the Parser object after parse(tokens, limit) and what the call returned,
\* program having returned or raised r: ret is "pair" with (statements,
\* err), or "raise" with the exception
parse_return(tokens, r) ==
    IF ~Raised(r.s)
    THEN [self |-> [err |-> r.s.err, tokens |-> tokens, i |-> r.s.i],
          ret |-> "pair", statements |-> r.n, is_none |-> FALSE,
          exc |-> "none", stalls |-> r.s.stalls]
    ELSE [self |-> [err |-> r.s.err, tokens |-> tokens, i |-> r.s.i],
          ret |-> IF r.s.exc = "ParseError" THEN "pair" ELSE "raise",
          statements |-> <<>>, is_none |-> TRUE,
          exc |-> IF r.s.exc = "ParseError" THEN "none" ELSE r.s.exc,
          stalls |-> r.s.stalls]

parse(tokens, limit) ==
    parse_return(tokens,
                 call("program", tokens,
                      [i |-> 0, err |-> ErrorHandler(limit), exc |-> "none",
                       stalls |-> 0]))

(***************************************************************************)
(* src/src/environment.py.  heap is the heap of Environment objects: a     *)
(* sequence of [parent, map], an object being its index; parent 0 is None. *)
(* A map is a function from the names it binds to their values.            *)
(***************************************************************************)
Environment(heap, parent) == Append(heap, [parent |-> parent, map |-> <<>>])

MapWith(map, key, val) ==
    [n \in DOMAIN map \cup {key} |-> IF n = key THEN val ELSE map[n]]

insert(heap, self, key, val) ==
    [heap EXCEPT ![self].map = MapWith(heap[self].map, key, val)]

\* search that asks the parent first, so that an outer binding wins
RECURSIVE search_outer_first(_, _, _)
search_outer_first(heap, self, key) ==
    LET up == IF heap[self].parent # 0
              THEN search_outer_first(heap, heap[self].parent, key)
              ELSE [ret |-> Nil, exc |-> "KeyError"]
    IN  IF up.exc = "none" THEN up
        ELSE IF key \in DOMAIN heap[self].map
        THEN [ret |-> heap[self].map[key], exc |-> "none"]
        ELSE [ret |-> Nil, exc |-> "KeyError"]

\* [ret |-> the value found, exc |-> "none"], or the KeyError
RECURSIVE search(_, _, _)
search(heap, self, key) ==
    IF key \in DOMAIN heap[self].map
    THEN [ret |-> heap[self].map[key], exc |-> "none"]
    ELSE IF heap[self].parent # 0
    THEN search(heap, heap[self].parent, key)
    ELSE [ret |-> Nil, exc |-> "KeyError"]

\* modify that inserts into the root when no scope binds the key
RECURSIVE modify_inserts_at_root(_, _, _, _)
modify_inserts_at_root(heap, self, key, val) ==
    IF key \in DOMAIN heap[self].map
    THEN [envs |-> [heap EXCEPT ![self].map[key] = val], exc |-> "none"]
    ELSE IF heap[self].parent # 0
    THEN modify_inserts_at_root(heap, heap[self].parent, key, val)
    ELSE [envs |-> insert(heap, self, key, val), exc |-> "none"]

\* [envs |-> the heap after the call, exc |-> "none"], or the KeyError
RECURSIVE modify(_, _, _, _)
modify(heap, self, key, val) ==
    IF key \in DOMAIN heap[self].map
    THEN [envs |-> [heap EXCEPT ![self].map[key] = val], exc |-> "none"]
    ELSE IF heap[self].parent # 0
    THEN modify(heap, heap[self].parent, key, val)
    ELSE [envs |-> heap, exc |-> "KeyError"]

(***************************************************************************)
(* src/src/node.py: the interpret methods.  The state st that a call       *)
(* threads is [envs, err, pushes, out, exc]: the heap of environments, the *)
(* ErrorHandler handed in as err, the pushes made on it, the lines         *)
(* printed, and the exception that is unwinding.  env is the index of the  *)
(* Environment handed in.  A method returns [v, st], v its return value.   *)
(***************************************************************************)
Push(st, line, msg) ==
    LET r == push(st.err, line, msg)
    IN  [st EXCEPT !.err = r.h,
                   !.pushes = Append(st.pushes,
                       [line |-> line, error |-> msg, accepted |-> r.ret])]

\* print(val): str() of a python value
PyStr(v) ==
    CASE v.t = "float" ->
             IF v.d = 1 THEN ToString(v.n) \o ".0"
             ELSE ToString(v.n) \o "/" \o ToString(v.d)
      [] v.t = "str" -> v.s
      [] v.t = "bool" -> IF v.b THEN "True" ELSE "False"
      [] v.t = "NoneType" -> "None"

RECURSIVE interpret(_, _, _)

Literal_interpret(self, st, env) == [v |-> self.val.literal, st |-> st]

Variable_interpret(self, st, env) ==
    LET key == self.name.lexeme
        r == search(st.envs, env, key)
    IN  IF r.exc = "none" THEN [v |-> r.ret, st |-> st]
        ELSE LET line == self.name.line
                 msg == "attempted to access undefined variable '" \o key \o "'"
             IN  [v |-> Nil, st |-> Raise(Push(st, line, msg), "RuntimeError")]

isinstance_float(v) == v.t = "float"

isinstance_str(v) == v.t = "str"

\* python's ==: a bool is the number 0 or 1, None equals only None and a
\* str equals only an equal str
PyNumber(v) == IF v.t = "bool" THEN Num(IF v.b THEN 1 ELSE 0) ELSE v

PyEq(x, y) ==
    IF x.t \in {"float", "bool"} /\ y.t \in {"float", "bool"}
    THEN PyNumber(x) = PyNumber(y)
    ELSE x = y

Unary_interpret(self, st, env) ==
    LET val == interpret(self.right, st, env) IN
    IF Raised(val.st) THEN val
    ELSE IF self.operator.type = "MINUS"
    THEN IF isinstance_float(val.v)
         THEN [v |-> Rat(-1 * val.v.n, val.v.d), st |-> val.st]
         ELSE [v |-> Nil,
               st |-> Raise(Push(val.st, self.operator.line,
                                 "operand of '-' must be a number"),
                            "RuntimeError")]
    ELSE IF self.operator.type = "BANG"
    THEN IF PyEq(val.v, Nil) \/ PyEq(val.v, Bool(FALSE))
         THEN [v |-> Bool(TRUE), st |-> val.st]
         ELSE [v |-> Bool(FALSE), st |-> val.st]
    ELSE [v |-> Nil, st |-> val.st]

dispatch_any == {"EQUAL_EQUAL", "BANG_EQUAL"}

Binary_dispatch_any(type, x, y) ==
    IF type = "EQUAL_EQUAL" THEN Bool(PyEq(x, y)) ELSE Bool(~PyEq(x, y))

dispatch_float == {"PLUS", "MINUS", "STAR", "SLASH", "GREATER", "LESS",
                   "GREATER_EQUAL", "LESS_EQUAL"}

\* [v |-> the result, exc |-> "none"], or the ZeroDivisionError of x / y
Binary_dispatch_float(type, x, y) ==
    CASE type = "PLUS" ->
             [v |-> Rat(x.n * y.d + y.n * x.d, x.d * y.d), exc |-> "none"]
      [] type = "MINUS" ->
             [v |-> Rat(x.n * y.d - y.n * x.d, x.d * y.d), exc |-> "none"]
      [] type = "STAR" -> [v |-> Rat(x.n * y.n, x.d * y.d), exc |-> "none"]
      [] type = "SLASH" ->
             IF y.n = 0 THEN [v |-> Nil, exc |-> "ZeroDivisionError"]
             ELSE [v |-> Rat(x.n * y.d, x.d * y.n), exc |-> "none"]
      [] type = "GREATER" ->
             [v |-> Bool(x.n * y.d > y.n * x.d), exc |-> "none"]
      [] type = "LESS" ->
             [v |-> Bool(x.n * y.d < y.n * x.d), exc |-> "none"]
      [] type = "GREATER_EQUAL" ->
             [v |-> Bool(x.n * y.d >= y.n * x.d), exc |-> "none"]
      [] type = "LESS_EQUAL" ->
             [v |-> Bool(x.n * y.d <= y.n * x.d), exc |-> "none"]

Binary_interpret(self, st, env) ==
    LET lval == interpret(self.left, st, env)
        rval == interpret(self.right, lval.st, env)
        type == self.operator.type
        mismatch ==
            [v |-> Nil,
             st |-> Raise(Push(rval.st, self.operator.line,
                               "cannot perform '" \o self.operator.lexeme
                                   \o "' on mismatched types"),
                          "RuntimeError")]
    IN  IF Raised(lval.st) THEN lval
        ELSE IF Raised(rval.st) THEN rval
        ELSE IF type \in dispatch_any
        THEN [v |-> Binary_dispatch_any(type, lval.v, rval.v), st |-> rval.st]
        ELSE IF isinstance_float(lval.v) /\ isinstance_float(rval.v)
        THEN IF type \in dispatch_float
             THEN LET r == Binary_dispatch_float(type, lval.v, rval.v)
                  IN  [v |-> r.v,
                       st |-> IF r.exc = "none" THEN rval.st
                              ELSE Raise(rval.st, r.exc)]
             ELSE [v |-> Nil, st |-> Raise(rval.st, "KeyError")]
        ELSE IF type = "PLUS"
        THEN IF isinstance_str(lval.v) /\ isinstance_str(rval.v)
             THEN [v |-> Str(lval.v.s \o rval.v.s), st |-> rval.st]
             ELSE mismatch
        ELSE mismatch

Grouping_interpret(self, st, env) == interpret(self.val, st, env)

Assignment_interpret(self, st, env) ==
    LET key == self.lval.lexeme
        val == interpret(self.rval, st, env)
    IN  IF Raised(val.st) THEN val
        ELSE LET r == modify(val.st.envs, env, key, val.v) IN
             IF r.exc = "none"
             THEN [v |-> val.v, st |-> [val.st EXCEPT !.envs = r.envs]]
             ELSE LET line == self.lval.line
                      msg == "variable '" \o key
                                 \o "' not declared prior to assignment"
                  IN  [v |-> Nil,
                       st |-> Raise(Push(val.st, line, msg), "RuntimeError")]

Generic_interpret(self, st, env) ==
    LET r == interpret(self.expr, st, env)
    IN  [v |-> Nil, st |-> r.st]

Printer_interpret(self, st, env) ==
    LET val == interpret(self.expr, st, env)
    IN  IF Raised(val.st) THEN [v |-> Nil, st |-> val.st]
        ELSE [v |-> Nil,
              st |-> [val.st EXCEPT !.out = Append(val.st.out, PyStr(val.v))]]

VariableDeclaration_interpret(self, st, env) ==
    IF self.name = None
    THEN [v |-> Nil, st |-> Raise(st, "AttributeError")]
    ELSE LET key == self.name.lexeme
             value == interpret(self.initializer, st, env)
         IN  IF Raised(value.st) THEN [v |-> Nil, st |-> value.st]
             ELSE [v |-> Nil,
                   st |-> [value.st EXCEPT
                             !.envs = insert(value.st.envs, env, key, value.v)]]

\* "for tree in statements" names no variable of the method: NameError.
\* The child environment is referenced by nothing and is reclaimed.
Block_interpret(self, st, parent_env) ==
    LET child_env == Environment(st.envs, parent_env)
    IN  [v |-> Nil, st |-> Raise(st, "NameError")]

\* node.interpret(err, env): python looks the method up in the node's class;
\* None and the classes node.py does not define have none
interpret(node, st, env) ==
    IF Raised(st) THEN [v |-> Nil, st |-> st]
    ELSE CASE node.kind = "Literal" -> Literal_interpret(node, st, env)
           [] node.kind = "Variable" -> Variable_interpret(node, st, env)
           [] node.kind = "Unary" -> Unary_interpret(node, st, env)
           [] node.kind = "Binary" -> Binary_interpret(node, st, env)
           [] node.kind = "Grouping" -> Grouping_interpret(node, st, env)
           [] node.kind = "Assignment" -> Assignment_interpret(node, st, env)
           [] node.kind = "Generic" -> Generic_interpret(node, st, env)
           [] node.kind = "Printer" -> Printer_interpret(node, st, env)
           [] node.kind = "VariableDeclaration" ->
                  VariableDeclaration_interpret(node, st, env)
           [] node.kind = "Block" -> Block_interpret(node, st, env)
           [] OTHER -> [v |-> Nil, st |-> Raise(st, "AttributeError")]

(***************************************************************************)
(* src/src/interpreter.py.  The state st that a call threads is            *)
(* [err, exc]: the Interpreter's ErrorHandler and the exception that is    *)
(* unwinding.  A handler returns [v, st].  A python list is the node       *)
(* [kind |-> "list", items].                                               *)
(***************************************************************************)
RuntimeLimit == 1

PyList(items) == [kind |-> "list", items |-> items]

\* type(node).__name__
ClassName(node) == IF node.kind = "None" THEN "NoneType" ELSE node.kind

\* Interpreter(*args): __init__ takes self alone
Interpreter(args) ==
    IF Len(args) = 0
    THEN [self |-> [err |-> ErrorHandler(RuntimeLimit)], exc |-> "none"]
    ELSE [self |-> [err |-> ErrorHandler(RuntimeLimit)], exc |-> "TypeError"]

jmp_table == {"Binary", "Unary", "Literal", "Grouping"}

bin_table == {"MINUS", "STAR", "SLASH", "GREATER", "LESS", "GREATER_EQUAL",
              "LESS_EQUAL"}

RECURSIVE traverse(_, _)

\* the tail of handle_binary: push is called with one argument
handle_binary_mismatch(st) == Raise(st, "TypeError")

handle_binary(node, st) ==
    LET lval == traverse(node.left, st)
        rval == traverse(node.right, lval.st)
        type == node.operator.type
        floats == isinstance_float(lval.v) /\ isinstance_float(rval.v)
    IN  IF Raised(lval.st) THEN lval
        ELSE IF Raised(rval.st) THEN rval
        ELSE IF type = "EQUAL_EQUAL"
        THEN [v |-> Bool(PyEq(lval.v, rval.v)), st |-> rval.st]
        ELSE IF type = "BANG_EQUAL"
        THEN [v |-> Bool(~PyEq(lval.v, rval.v)), st |-> rval.st]
        ELSE IF type = "PLUS"
        THEN IF floats
             THEN [v |-> Binary_dispatch_float("PLUS", lval.v, rval.v).v,
                   st |-> rval.st]
             ELSE IF isinstance_str(lval.v) /\ isinstance_str(rval.v)
             THEN [v |-> Str(lval.v.s \o rval.v.s), st |-> rval.st]
             ELSE [v |-> Nil, st |-> handle_binary_mismatch(rval.st)]
        ELSE IF floats
        THEN IF type \in bin_table
             THEN LET r == Binary_dispatch_float(type, lval.v, rval.v)
                  IN  [v |-> r.v,
                       st |-> IF r.exc = "none" THEN rval.st
                              ELSE Raise(rval.st, r.exc)]
             ELSE [v |-> Nil, st |-> Raise(rval.st, "KeyError")]
        ELSE [v |-> Nil, st |-> handle_binary_mismatch(rval.st)]

handle_unary(node, st) ==
    LET val == traverse(node.right, st) IN
    IF Raised(val.st) THEN val
    ELSE IF node.operator.type = "MINUS"
    THEN IF isinstance_float(val.v)
         THEN [v |-> Rat(-1 * val.v.n, val.v.d), st |-> val.st]
         ELSE [v |-> Nil,
               st |-> Raise([val.st EXCEPT !.err =
                                push(val.st.err, node.operator.line,
                                     "operand of '-' must be a number").h],
                            "RuntimeError")]
    ELSE IF node.operator.type = "BANG"
    THEN IF PyEq(val.v, Nil) \/ PyEq(val.v, Bool(FALSE))
         THEN [v |-> Bool(TRUE), st |-> val.st]
         ELSE [v |-> Bool(FALSE), st |-> val.st]
    ELSE [v |-> Nil, st |-> val.st]

handle_literal(node, st) == [v |-> node.val.literal, st |-> st]

handle_grouping(node, st) == traverse(node.val, st)

traverse(node, st) ==
    IF Raised(st) THEN [v |-> Nil, st |-> st]
    ELSE CASE ClassName(node) = "Binary" -> handle_binary(node, st)
           [] ClassName(node) = "Unary" -> handle_unary(node, st)
           [] ClassName(node) = "Literal" -> handle_literal(node, st)
           [] ClassName(node) = "Grouping" -> handle_grouping(node, st)
           [] OTHER -> [v |-> Nil, st |-> Raise(st, "KeyError")]

\* interpret that makes room, as Parser.trap does, when the handler is full
Interpreter_interpret_grows(self, node) ==
    LET r == traverse(node, [err |-> self.err, exc |-> "none"]) IN
    IF ~Raised(r.st)
    THEN [ret |-> "pair", v |-> r.v, is_none |-> r.v = Nil, err |-> r.st.err,
          exc |-> "none"]
    ELSE IF r.st.exc = "RuntimeError"
    THEN [ret |-> "pair", v |-> Nil, is_none |-> TRUE, err |-> r.st.err,
          exc |-> "none"]
    ELSE IF r.st.exc = "KeyError"
    THEN LET name == ClassName(node)
             msg == "(INTERNAL ERROR) node " \o name \o " not in jump table"
             p == push(r.st.err, -1, msg)
         IN  [ret |-> "pair", v |-> Nil, is_none |-> TRUE,
              err |-> IF p.ret THEN p.h
                      ELSE push(grow(r.st.err, 1).h, -1, msg).h,
              exc |-> "none"]
    ELSE [ret |-> "raise", v |-> Nil, is_none |-> TRUE, err |-> r.st.err,
          exc |-> r.st.exc]

\* Interpreter.interpret: ret is "pair" with (value, err), value None when
\* is_none, or "raise" with the exception that escapes
Interpreter_interpret(self, node) ==
    LET r == traverse(node, [err |-> self.err, exc |-> "none"]) IN
    IF ~Raised(r.st)
    THEN [ret |-> "pair", v |-> r.v, is_none |-> r.v = Nil, err |-> r.st.err,
          exc |-> "none"]
    ELSE IF r.st.exc = "RuntimeError"
    THEN [ret |-> "pair", v |-> Nil, is_none |-> TRUE, err |-> r.st.err,
          exc |-> "none"]
    ELSE IF r.st.exc = "KeyError"
    THEN LET name == ClassName(node)
             msg == "(INTERNAL ERROR) node " \o name \o " not in jump table"
         IN  [ret |-> "pair", v |-> Nil, is_none |-> TRUE,
              err |-> push(r.st.err, -1, msg).h, exc |-> "none"]
    ELSE [ret |-> "raise", v |-> Nil, is_none |-> TRUE, err |-> r.st.err,
          exc |-> r.st.exc]

(***************************************************************************)
(* src/pylox.py: run, from the tokens the tokenizer returned without an    *)
(* error.  The debug flags are off.  stdout is the lines printed.          *)
(***************************************************************************)
\* [ret |-> whether err was non-empty, stdout |-> the lines printed]
display_errors(err, header) ==
    IF ErrorHandler_bool(err)
    THEN [ret |-> TRUE,
          stdout |-> <<header>> \o
              [k \in 1 .. Len(ErrorHandler_iter(err)) |->
                  "\t" \o ErrorHandler_iter(err)[k]]]
    ELSE [ret |-> FALSE, stdout |-> <<>>]

\* [stdout, exc, env, stage]: the lines printed, the exception that escapes
\* run, the global env after the call and the stage that ended the call
\* run from the grammar stage on, p being what prs.parse(tokens) returned
run_parsed(env, p) ==
    IF p.ret = "raise"
    THEN [stdout |-> <<>>, exc |-> p.exc, env |-> env, stage |-> "parse"]
    ELSE LET d == display_errors(p.self.err, "LOX: GRAMMAR ERROR") IN
         IF d.ret
         THEN [stdout |-> d.stdout, exc |-> "none", env |-> env,
               stage |-> "grammar"]
         ELSE LET itr == Interpreter(<<env>>) IN
              IF itr.exc # "none"
              THEN [stdout |-> d.stdout, exc |-> itr.exc, env |-> env,
                    stage |-> "Interpreter"]
              ELSE LET r == Interpreter_interpret(itr.self,
                                                  PyList(p.statements))
                   IN  \* a pair is unpacked into three names
                       [stdout |-> d.stdout,
                        exc |-> IF r.ret = "raise" THEN r.exc
                                ELSE "ValueError",
                        env |-> env, stage |-> "interpret"]

run(tokens, env) ==
    IF tokens[1].type = "EOF"
    THEN [stdout |-> <<>>, exc |-> "none", env |-> env, stage |-> "empty"]
    ELSE run_parsed(env, parse(tokens, DefaultLimit))

(***************************************************************************)
(* The state of each part before any call on it.                           *)
(***************************************************************************)
NoCall == [op |-> "init", line |-> 0, error |-> "", inc |-> 0,
           ret |-> "None", before |-> ErrorHandler(0), items |-> <<>>]

ErrIdle ==
    /\ eh = ErrorHandler(DefaultLimit)
    /\ eh_call = NoCall
    /\ eh_accepted = <<>>
    /\ eh_created = DefaultLimit

\* Parser.__init__
PrsIdle ==
    /\ arg_tokens = <<>>
    /\ arg_limit = 0
    /\ prs = [err |-> ErrorHandler(DefaultLimit), tokens |-> <<>>, i |-> 0]
    /\ prs_call = [op |-> "init"]

\* the global environment, Environment(None), and a handler of capacity 1
EnvIdle ==
    /\ envs = Environment(<<>>, 0)
    /\ rt = ErrorHandler(RuntimeLimit)
    /\ env_call = [op |-> "init"]

\* pylox.py: env = None
RunIdle ==
    /\ run_tokens = <<>>
    /\ run_env = None
    /\ run_call = [op |-> "init"]

\* Interpreter.__init__
EvalIdle ==
    /\ ev_itr = Interpreter(<<>>).self
    /\ ev_call = [op |-> "init"]

(***************************************************************************)
(* SpecErr: one ErrorHandler and the calls of its clients.                 *)
(***************************************************************************)
Lines == {-1, 0, 3}
Texts == {"foo", "bar"}
Incs == {-1, 0, 1, 2}
InitLimits == (-1 .. MaxLimit) \cup {DefaultLimit}

Ret(b) == IF b THEN "True" ELSE "False"

ErrInit ==
    /\ \E limit \in InitLimits :
          eh = ErrorHandler(limit) /\ eh_created = limit
    /\ eh_call = NoCall
    /\ eh_accepted = <<>>
    /\ PrsIdle /\ EnvIdle /\ RunIdle /\ EvalIdle

ErrPush ==
    \E line \in Lines, error \in Texts :
        LET r == push(eh, line, error) IN
        /\ Len(eh.queue) < MaxQueue \/ Len(eh.queue) = eh.limit
        /\ eh' = r.h
        /\ eh_call' = [NoCall EXCEPT !.op = "push", !.line = line,
                          !.error = error, !.ret = Ret(r.ret), !.before = eh]
        /\ eh_accepted' = IF r.ret
                          THEN Append(eh_accepted, [line |-> line, error |-> error])
                          ELSE eh_accepted
        /\ UNCHANGED <<eh_created, prsvars, envvars, runvars, evalvars>>

ErrGrow ==
    \E inc \in Incs :
        LET r == grow(eh, inc) IN
        /\ eh.limit + inc <= MaxCap
        /\ eh' = r.h
        /\ eh_call' = [NoCall EXCEPT !.op = "grow", !.inc = inc,
                          !.ret = Ret(r.ret), !.before = eh]
        /\ UNCHANGED <<eh_accepted, eh_created, prsvars, envvars, runvars,
                       evalvars>>

ErrReset ==
    /\ eh' = reset(eh)
    /\ eh_call' = [NoCall EXCEPT !.op = "reset", !.before = eh]
    /\ eh_accepted' = <<>>
    /\ UNCHANGED <<eh_created, prsvars, envvars, runvars, evalvars>>

\* for i in err: the messages in the order the iterator yields them
ErrIterate ==
    /\ eh_call' = [NoCall EXCEPT !.op = "iter", !.before = eh,
                      !.ret = Ret(ErrorHandler_bool(eh)),
                      !.items = ErrorHandler_iter(eh)]
    /\ UNCHANGED <<eh, eh_accepted, eh_created, prsvars, envvars, runvars,
                   evalvars>>

ErrNext == ErrPush \/ ErrGrow \/ ErrReset \/ ErrIterate

SpecErr == ErrInit /\ [][ErrNext]_vars

(***************************************************************************)
(* SpecParse: one Parser and one call of parse.  parse() rebuilds the      *)
(* handler, the tokens and the index, so a call does not depend on the     *)
(* calls before it.  The tokens are what the tokenizer produces: token k   *)
(* stands on line k, the end marker is the last token and stands on the    *)
(* line of the token before it.                                            *)
(***************************************************************************)
Sym(type, lexeme, literal) == [type |-> type, lexeme |-> lexeme, literal |-> literal]

Kw(type) == Sym(type, TokenTypeValue(type), Nil)

NumberSym == Sym("NUMBER", "1", Num(1))
IdentSym == Sym("IDENTIFIER", "x", Str("x"))

CoreSyms == {NumberSym, IdentSym, Kw("SEMICOLON"), Kw("PRINT"), Kw("VAR"),
             Kw("PLUS"), Kw("EQUAL"), Kw("CLASS")}

BinaryOps == {"OR", "AND", "EQUAL_EQUAL", "BANG_EQUAL", "LESS", "LESS_EQUAL",
              "GREATER", "GREATER_EQUAL", "PLUS", "MINUS", "STAR", "SLASH"}

MkTokens(syms) ==
    [k \in 1 .. Len(syms) + 1 |->
        IF k <= Len(syms)
        THEN Token(syms[k].type, k, syms[k].lexeme, syms[k].literal)
        ELSE Token("EOF", IF Len(syms) = 0 THEN 1 ELSE Len(syms), "None", Nil)]

SeqsUpTo(S, n) == UNION {[1 .. k -> S] : k \in 0 .. n}

\* a op1 b op2 c ;
BinarySyms(op1, op2) ==
    <<NumberSym, Kw(op1), IdentSym, Kw(op2), NumberSym, Kw("SEMICOLON")>>

\* the left sides of "=": a variable, a literal, a parenthesised variable,
\* a sum; and its right sides: a literal, an assignment
AssignTargets ==
    {<<IdentSym>>, <<NumberSym>>,
     <<Kw("LEFT_PAREN"), IdentSym, Kw("RIGHT_PAREN")>>,
     <<IdentSym, Kw("PLUS"), NumberSym>>}

AssignValues == {<<NumberSym>>, <<IdentSym, Kw("EQUAL"), NumberSym>>}

PrintSyms == <<Kw("PRINT"), NumberSym, Kw("SEMICOLON")>>

\* lhs = rhs ; alone or followed by print 1 ;
AssignSyms ==
    {l \o <<Kw("EQUAL")>> \o r \o <<Kw("SEMICOLON")>> \o rest :
         l \in AssignTargets, r \in AssignValues, rest \in {<<>>, PrintSyms}}

\* blocks, closed and left open before the end marker
BlockSyms ==
    {<<Kw("LEFT_BRACE")>>,
     <<Kw("LEFT_BRACE"), Kw("RIGHT_BRACE")>>,
     <<Kw("LEFT_BRACE")>> \o PrintSyms,
     <<Kw("LEFT_BRACE")>> \o PrintSyms \o <<Kw("RIGHT_BRACE")>>,
     <<Kw("LEFT_BRACE"), Kw("PRINT"), NumberSym>>,
     <<Kw("LEFT_BRACE"), Kw("PLUS")>>,
     PrintSyms \o <<Kw("LEFT_BRACE")>> \o PrintSyms,
     <<Kw("LEFT_BRACE"), Kw("LEFT_BRACE")>> \o PrintSyms
         \o <<Kw("RIGHT_BRACE")>>}

TokenInputs ==
    {MkTokens(syms) : syms \in SeqsUpTo(CoreSyms, MaxLen)}
    \cup {MkTokens(BinarySyms(op1, op2)) : op1 \in BinaryOps, op2 \in BinaryOps}
    \cup {MkTokens(syms) : syms \in AssignSyms \cup BlockSyms}

ParseLimits == (-1 .. MaxLimit) \cup {DefaultLimit}

PrsInit ==
    /\ arg_tokens \in TokenInputs
    /\ arg_limit \in ParseLimits
    /\ prs = [err |-> ErrorHandler(DefaultLimit), tokens |-> <<>>, i |-> 0]
    /\ prs_call = [op |-> "init"]
    /\ ErrIdle /\ EnvIdle /\ RunIdle /\ EvalIdle

\* the parser after the call, and what the call returned (r)
PrsReturn(r) ==
    /\ prs' = r.self
    /\ prs_call' = [op |-> "parse", ret |-> r.ret, exc |-> r.exc,
                     statements |-> r.statements, is_none |-> r.is_none,
                     stalls |-> r.stalls]

PrsParse ==
    /\ prs_call.op = "init"
    /\ PrsReturn(parse(arg_tokens, arg_limit))
    /\ UNCHANGED <<arg_tokens, arg_limit, ehvars, envvars, runvars,
                   evalvars>>

PrsNext == PrsParse

SpecParse == PrsInit /\ [][PrsNext]_vars

(***************************************************************************)
(* SpecEnv: a tree of environments under the global one, the calls of the  *)
(* Environment methods, and the calls of node.interpret(err, env) on the   *)
(* nodes of EnvNodes with the handler rt as err.                           *)
(***************************************************************************)
Names == {"x", "y"}
Values == {Nil, Num(1)}

IdTok(name) ==
    Token("IDENTIFIER", IF name = "x" THEN 3 ELSE 5, name, Str(name))

LitTok(v) ==
    IF v = Nil THEN Token("NIL", 4, "nil", Nil)
    ELSE Token("NUMBER", 4, ToString(v.n), v)

EnvNodes ==
    {Variable(IdTok(n)) : n \in Names}
    \cup {Assignment(IdTok(n), Literal(LitTok(v))) : n \in Names, v \in Values}
    \cup {VariableDeclaration(IdTok(n), Literal(LitTok(v))) :
              n \in Names, v \in Values}
    \cup {Printer(Variable(IdTok(n))) : n \in Names}
    \cup {Generic(Assignment(IdTok("x"), Variable(IdTok("y"))))}
    \cup {Block(<<VariableDeclaration(IdTok(n), Literal(LitTok(Num(1))))>>) :
              n \in Names}
    \cup {Block(<<>>)}

EnvCall(op, env, key, val) ==
    [op |-> op, env |-> env, key |-> key, val |-> val, node |-> None,
     ret |-> Nil, exc |-> "none", before |-> envs, pushes |-> <<>>,
     out |-> <<>>]

EnvInit == EnvIdle /\ ErrIdle /\ PrsIdle /\ RunIdle /\ EvalIdle

\* Environment(parent), as Block.interpret creates a child environment
EnvCreate ==
    \E parent \in 1 .. Len(envs) :
        /\ env_call.op = "init"
        /\ Len(envs) < MaxEnvs
        /\ envs' = Environment(envs, parent)
        /\ env_call' = EnvCall("Environment", parent, "", Nil)
        /\ UNCHANGED <<rt, ehvars, prsvars, runvars, evalvars>>

EnvInsert ==
    \E env \in 1 .. Len(envs), key \in Names, val \in Values :
        /\ env_call.op = "init"
        /\ envs' = insert(envs, env, key, val)
        /\ env_call' = EnvCall("insert", env, key, val)
        /\ UNCHANGED <<rt, ehvars, prsvars, runvars, evalvars>>

EnvSearch ==
    \E env \in 1 .. Len(envs), key \in Names :
        LET r == search(envs, env, key) IN
        /\ env_call.op = "init"
        /\ env_call' = [EnvCall("search", env, key, Nil) EXCEPT
                           !.ret = r.ret, !.exc = r.exc]
        /\ UNCHANGED <<envs, rt, ehvars, prsvars, runvars, evalvars>>

EnvModify ==
    \E env \in 1 .. Len(envs), key \in Names, val \in Values :
        LET r == modify(envs, env, key, val) IN
        /\ env_call.op = "init"
        /\ envs' = r.envs
        /\ env_call' = [EnvCall("modify", env, key, val) EXCEPT !.exc = r.exc]
        /\ UNCHANGED <<rt, ehvars, prsvars, runvars, evalvars>>

EnvInterpret ==
    \E env \in 1 .. Len(envs), node \in EnvNodes :
        LET st == [envs |-> envs, err |-> rt, pushes |-> <<>>, out |-> <<>>,
                   exc |-> "none"]
            r == interpret(node, st, env)
        IN
        /\ env_call.op = "init"
        /\ envs' = r.st.envs
        /\ rt' = r.st.err
        /\ env_call' = [EnvCall("interpret", env, "", Nil) EXCEPT
                           !.node = node, !.ret = r.v, !.exc = r.st.exc,
                           !.pushes = r.st.pushes, !.out = r.st.out]
        /\ UNCHANGED <<ehvars, prsvars, runvars, evalvars>>

\* err.reset() between two runs on the same handler
EnvReset ==
    /\ env_call.op = "init"
    /\ rt.queue # <<>>
    /\ rt' = reset(rt)
    /\ env_call' = EnvCall("reset", 0, "", Nil)
    /\ UNCHANGED <<envs, ehvars, prsvars, runvars, evalvars>>

\* the call has returned to its caller, which goes on to its next call on
\* the environments and the handler as the call left them
EnvReturn ==
    /\ env_call.op # "init"
    /\ env_call' = [op |-> "init"]
    /\ UNCHANGED <<envs, rt, ehvars, prsvars, runvars, evalvars>>

EnvNext ==
    EnvCreate \/ EnvInsert \/ EnvSearch \/ EnvModify \/ EnvInterpret
        \/ EnvReset \/ EnvReturn

SpecEnv == EnvInit /\ [][EnvNext]_vars

(***************************************************************************)
(* SpecRun: one call of run on the tokens of a source, or one call of      *)
(* Interpreter().interpret on the program parsed from them or on an        *)
(* expression node.                                                        *)
(***************************************************************************)
NumTok(n) == Token("NUMBER", 1, ToString(n), Num(n))

StrTok(x) == Token("STRING", 1, "\"" \o x \o "\"", Str(x))

OpTok(type) == Token(type, 1, TokenTypeValue(type), Nil)

ItrNodes ==
    {Literal(NumTok(2)), Literal(StrTok("a")), Grouping(Literal(NumTok(2))),
     Unary(OpTok("MINUS"), Literal(NumTok(2))),
     Unary(OpTok("MINUS"), Literal(StrTok("a"))),
     Unary(OpTok("BANG"), Literal(NumTok(0))),
     Variable(IdTok("x")), Printer(Literal(NumTok(2)))}
    \cup {Binary(Literal(l), OpTok(op), Literal(r)) :
              l \in {NumTok(2), StrTok("a")}, r \in {NumTok(1), StrTok("b")},
              op \in {"PLUS", "MINUS", "EQUAL_EQUAL", "LESS"}}

RunInit ==
    /\ run_tokens \in TokenInputs
    /\ run_env = None
    /\ run_call = [op |-> "init"]
    /\ ErrIdle /\ PrsIdle /\ EnvIdle /\ EvalIdle

RunCall(op) ==
    [op |-> op, node |-> None, stdout |-> <<>>, exc |-> "none",
     stage |-> "", ret |-> "", v |-> Nil, is_none |-> TRUE,
     err |-> ErrorHandler(RuntimeLimit)]

\* the global environment after the call, and what the call printed (r)
RunReturn(r) ==
    /\ run_env' = r.env
    /\ run_call' = [RunCall("run") EXCEPT !.stdout = r.stdout,
                       !.exc = r.exc, !.stage = r.stage]

RunRun ==
    /\ run_call.op = "init"
    /\ RunReturn(run(run_tokens, run_env))
    /\ UNCHANGED <<run_tokens, ehvars, prsvars, envvars, evalvars>>

\* the program that run would hand to interpret: the statements parse
\* returns for the tokens when it pushes no diagnostic
ProgramOf(p) ==
    IF p.ret = "pair" /\ ~p.is_none /\ p.self.err.queue = <<>>
    THEN {PyList(p.statements)} ELSE {}

Program == ProgramOf(parse(run_tokens, DefaultLimit))

RunInterpret ==
    /\ run_call.op = "init"
    /\ \E node \in ItrNodes \cup Program :
          LET itr == Interpreter(<<>>)
              r == Interpreter_interpret(itr.self, node)
          IN  run_call' = [RunCall("interpret") EXCEPT !.node = node,
                              !.ret = r.ret, !.v = r.v, !.is_none = r.is_none,
                              !.err = r.err, !.exc = r.exc]
    /\ UNCHANGED <<run_tokens, run_env, ehvars, prsvars, envvars,
                   evalvars>>

RunNext == RunRun \/ RunInterpret

SpecRun == RunInit /\ [][RunNext]_vars

(***************************************************************************)
(* SpecEval: the evaluation of expression nodes.  A node is evaluated by   *)
(* node.interpret(err, env), err a new handler of the runtime capacity and *)
(* env the global environment EvalGlobals, or by the interpret method of   *)
(* one Interpreter that lives across the calls; a source is parsed and the *)
(* expression of its statement evaluated both ways.                        *)
(***************************************************************************)
\* the nodes evaluated: every binary operator but the logical ones and
\* both unary operators on literal operands of every runtime type, the
\* logical operators on such a left operand and on a right operand that is
\* a literal, an assignment to the declared x, the undeclared y or a
\* division by zero, and variables and assignments; the tokens are the
\* tokenizer's, on line 1
EvalNodes ==
    LET values == {Num(0), Num(1), Str(""), Str("a"), Bool(TRUE),
                   Bool(FALSE), Nil}
        Lit(v) ==
            Literal(CASE v.t = "float" -> NumTok(v.n)
                      [] v.t = "str" -> StrTok(v.s)
                      [] v.t = "bool" ->
                             IF v.b THEN Token("TRUE", 1, "true", v)
                             ELSE Token("FALSE", 1, "false", v)
                      [] v.t = "NoneType" -> Token("NIL", 1, "nil", Nil))
        rights == {Lit(Num(1)), Assignment(IdTok("x"), Lit(Num(1))),
                   Variable(IdTok("y")),
                   Binary(Lit(Num(1)), OpTok("SLASH"), Lit(Num(0)))}
    IN  {Binary(Lit(l), OpTok(op), Lit(r)) :
             l \in values, r \in values, op \in BinaryOps \ {"OR", "AND"}}
        \cup {Unary(OpTok(op), Lit(v)) : op \in {"BANG", "MINUS"}, v \in values}
        \cup {Logical(Lit(l), OpTok(op), right) :
                  l \in values, op \in {"OR", "AND"}, right \in rights}
        \cup {Variable(IdTok(n)) : n \in Names}
        \cup {Assignment(IdTok(n), Lit(Num(1))) : n \in Names}
        \cup {Grouping(Lit(Num(1)))}

\* the global environment: x, a, b, c and d are declared, y is not
EvalGlobals ==
    <<[parent |-> 0,
       map |-> [n \in {"x", "a", "b", "c", "d"} |->
                   CASE n = "x" -> Num(2)
                     [] n = "a" -> Num(1)
                     [] n = "b" -> Num(5)
                     [] n = "c" -> Num(2)
                     [] n = "d" -> Num(3)]]>>

\* 1 op1 2 op2 3 ;
ExprSyms(op1, op2) ==
    LET NumSym(n) == Sym("NUMBER", ToString(n), Num(n))
    IN  <<NumSym(1), Kw(op1), NumSym(2), Kw(op2), NumSym(3), Kw("SEMICOLON")>>

\* a + b == c * d ;
NamesSyms ==
    LET NameSym(n) == Sym("IDENTIFIER", n, Str(n))
    IN  <<NameSym("a"), Kw("PLUS"), NameSym("b"), Kw("EQUAL_EQUAL"),
          NameSym("c"), Kw("STAR"), NameSym("d"), Kw("SEMICOLON")>>

EvalSources ==
    {ExprSyms(op1, op2) : op1 \in BinaryOps, op2 \in BinaryOps}
        \cup {NamesSyms}

EvalCall(op, node) ==
    [op |-> op, node |-> node, tokens |-> <<>>, ret |-> "", v |-> Nil,
     is_none |-> TRUE, exc |-> "none", pushes |-> <<>>,
     before |-> ev_itr.err, err |-> ev_itr.err, envs |-> EvalGlobals,
     itr |-> [ret |-> "", v |-> Nil, exc |-> "none"]]

EvalInit == EvalIdle /\ ErrIdle /\ PrsIdle /\ EnvIdle /\ RunIdle

\* the state node.interpret(err, env) starts from
EvalState ==
    [envs |-> EvalGlobals, err |-> ErrorHandler(RuntimeLimit),
     pushes |-> <<>>, out |-> <<>>, exc |-> "none"]

\* node.interpret(err, env)
EvalNode ==
    /\ ev_call.op = "init"
    /\ \E node \in EvalNodes :
          LET r == interpret(node, EvalState, 1)
          IN  ev_call' = [EvalCall("node", node) EXCEPT
                             !.ret = IF Raised(r.st) THEN "raise" ELSE "value",
                             !.v = r.v, !.exc = r.st.exc,
                             !.pushes = r.st.pushes, !.err = r.st.err,
                             !.envs = r.st.envs]
    /\ UNCHANGED <<ev_itr, ehvars, prsvars, envvars, runvars>>

\* itr.interpret(node) on the Interpreter that lives across the calls
EvalItr ==
    /\ ev_call.op = "init"
    /\ \E node \in EvalNodes :
          LET r == Interpreter_interpret(ev_itr, node)
          IN  /\ ev_itr' = [ev_itr EXCEPT !.err = r.err]
              /\ ev_call' = [EvalCall("itr", node) EXCEPT
                                !.ret = r.ret, !.v = r.v,
                                !.is_none = r.is_none, !.exc = r.exc,
                                !.err = r.err]
    /\ UNCHANGED <<ehvars, prsvars, envvars, runvars>>

\* itr = Interpreter(): the next run starts on a new Interpreter
EvalNew ==
    /\ ev_call.op = "init"
    /\ ev_itr.err.queue # <<>>
    /\ ev_itr' = Interpreter(<<>>).self
    /\ ev_call' = EvalCall("new", None)
    /\ UNCHANGED <<ehvars, prsvars, envvars, runvars>>

\* the expression of the one statement that parse returned (p)
EvalTree(p) ==
    IF p.ret = "pair" /\ ~p.is_none /\ p.self.err.queue = <<>>
           /\ Len(p.statements) = 1 /\ p.statements[1].kind = "Generic"
    THEN p.statements[1].expr
    ELSE None

\* parse, then the expression evaluated by node.interpret and by a new
\* Interpreter
EvalParse ==
    /\ ev_call.op = "init"
    /\ \E syms \in EvalSources :
          LET tokens == MkTokens(syms)
              node == EvalTree(parse(tokens, DefaultLimit))
              r == interpret(node, EvalState, 1)
              i == Interpreter_interpret(Interpreter(<<>>).self, node)
          IN  ev_call' = [EvalCall("parse", node) EXCEPT
                             !.tokens = tokens,
                             !.ret = IF Raised(r.st) THEN "raise" ELSE "value",
                             !.v = r.v, !.exc = r.st.exc,
                             !.pushes = r.st.pushes, !.err = r.st.err,
                             !.envs = r.st.envs,
                             !.itr = [ret |-> i.ret, v |-> i.v,
                                      exc |-> i.exc]]
    /\ UNCHANGED <<ev_itr, ehvars, prsvars, envvars, runvars>>

\* the call has returned; the Interpreter stays as the call left it
EvalReturn ==
    /\ ev_call.op # "init"
    /\ ev_call' = [op |-> "init"]
    /\ UNCHANGED <<ev_itr, ehvars, prsvars, envvars, runvars>>

EvalNext == EvalNode \/ EvalItr \/ EvalNew \/ EvalParse \/ EvalReturn

SpecEval == EvalInit /\ [][EvalNext]_vars

(***************************************************************************)
(* Claims about SpecErr.                                                   *)
(***************************************************************************)
\* what the claims expect a pushed (line, text) to read as
Rendered(line, text) ==
    IF line < 0 THEN text ELSE "line " \o ToString(line) \o ": " \o text

\* C9: push on a handler whose queue length equals its capacity returns
\* False and leaves the handler unchanged; push below capacity returns True
\* and appends exactly one message, the pushed one, at the tail.
C9_PushRespectsCapacity ==
    eh_call.op = "push" =>
        LET b == eh_call.before IN
        /\ Len(b.queue) = b.limit =>
               eh_call.ret = "False" /\ eh = b
        /\ Len(b.queue) < b.limit =>
               /\ eh_call.ret = "True"
               /\ eh.limit = b.limit
               /\ eh.queue = Append(b.queue,
                                    Rendered(eh_call.line, eh_call.error))

\* a push rejected by a handler that holds messages
C9_Witness ==
    /\ eh_call.op = "push"
    /\ Len(eh_call.before.queue) = eh_call.before.limit
    /\ Len(eh.queue) >= 2
    /\ eh_call.ret = "False"

\* C10: iterating the handler yields exactly the pushes accepted since its
\* creation or last reset, first pushed first, each as "line <n>: <text>"
\* unless the line is negative, and then as the bare text.
C10_IterationIsFifoOfAccepted ==
    eh_call.op = "iter" =>
        eh_call.items =
            [k \in 1 .. Len(eh_accepted) |->
                Rendered(eh_accepted[k].line, eh_accepted[k].error)]

\* an iteration over a suppressed-line message followed by a numbered one
C10_Witness ==
    /\ eh_call.op = "iter"
    /\ Len(eh_call.items) >= 2
    /\ eh_accepted[1].line < 0
    /\ eh_accepted[2].line >= 0
    /\ eh_accepted[1].error # eh_accepted[2].error

\* C11: the handler is truthy exactly when a push was accepted since its
\* creation or last reset; reset empties the queue and keeps the capacity;
\* a push on the emptied queue of a handler of capacity >= 1 is accepted;
\* only reset makes the queue shorter, and every other call keeps the
\* messages already queued.
C11_TruthyIffAcceptedPush ==
    LET b == eh_call.before IN
    /\ ErrorHandler_bool(eh) <=> (eh_accepted # <<>>)
    /\ eh_call.op = "iter" =>
           (eh_call.ret = "True" <=> eh_accepted # <<>>)
    /\ eh_call.op = "reset" => (eh.queue = <<>> /\ eh.limit = b.limit)
    /\ (eh_call.op = "push" /\ b.queue = <<>> /\ b.limit >= 1) =>
           (eh_call.ret = "True" /\ ErrorHandler_bool(eh))
    /\ eh_call.op \in {"push", "grow", "iter"} =>
           /\ Len(eh.queue) >= Len(b.queue)
           /\ \A k \in 1 .. Len(b.queue) : eh.queue[k] = b.queue[k]

\* a reset of a handler that held messages at a capacity other than the
\* default
C11_Witness ==
    /\ eh_call.op = "reset"
    /\ Len(eh_call.before.queue) >= 2
    /\ eh_call.before.limit >= 2
    /\ eh_call.before.limit # DefaultLimit
    /\ ~ErrorHandler_bool(eh)

\* C23: on a handler created with a limit >= 0 the queue is never longer
\* than the capacity and the capacity never falls below the limit it was
\* created with; grow(inc) with inc > 0 returns True and adds inc to the
\* capacity, with inc <= 0 it returns False and changes nothing; push and
\* reset leave the capacity alone.
C23_QueueWithinCapacity ==
    eh_created >= 0 =>
        /\ Len(eh.queue) <= eh.limit
        /\ eh.limit >= eh_created
        /\ eh_call.op = "grow" =>
               /\ eh.queue = eh_call.before.queue
               /\ IF eh_call.inc > 0
                  THEN /\ eh_call.ret = "True"
                       /\ eh.limit = eh_call.before.limit + eh_call.inc
                  ELSE /\ eh_call.ret = "False"
                       /\ eh = eh_call.before
        /\ eh_call.op \in {"push", "reset", "iter"} =>
               eh.limit = eh_call.before.limit

\* grow(-1) on a full handler that was grown before and holds two messages
C23_Witness ==
    /\ eh_created >= 0
    /\ eh_call.op = "grow"
    /\ eh_call.inc < 0
    /\ eh_call.ret = "False"
    /\ eh.limit > eh_created
    /\ Len(eh.queue) = eh.limit
    /\ Len(eh.queue) >= 2

(***************************************************************************)
(* Claims about SpecParse.                                                 *)
(***************************************************************************)
Parsed == prs_call.op = "parse"

Returned == Parsed /\ prs_call.ret = "pair"

Sentinel == "additional errors found (hidden)"

\* C1: when the tokens hold more grammar errors than the limit (a push of
\* trap was rejected, so the handler was grown), parse returns a queue of
\* exactly limit diagnostics followed by exactly one sentinel.
C1_SentinelAfterLimit ==
    (Parsed /\ arg_limit >= 0 /\ prs.err.limit > arg_limit) =>
        /\ prs_call.ret = "pair"
        /\ Len(prs.err.queue) = arg_limit + 1
        /\ \E k \in 1 .. Len(arg_tokens) :
               prs.err.queue[arg_limit + 1] =
                   Rendered(arg_tokens[k].line, Sentinel)
        /\ \A j \in 1 .. arg_limit, k \in 1 .. Len(arg_tokens) :
               prs.err.queue[j] # Rendered(arg_tokens[k].line, Sentinel)

\* C2 as stated: of a returned pair exactly one holds, the queue is
\* non-empty or the statement list is not None.
C2_ExactlyOne ==
    Returned => ((prs.err.queue # <<>>) # (~prs_call.is_none))

\* C2 as amended: of a returned pair at least one holds, the queue is
\* non-empty or the statement list is not None (None is returned only with
\* a diagnostic in the queue); both hold after a recovered grammar error.
C2_AtLeastOne ==
    Returned => (prs.err.queue # <<>> \/ ~prs_call.is_none)

\* a parse that recovered: diagnostics and a statement list
C2_Witness ==
    /\ Returned
    /\ prs.err.queue # <<>>
    /\ ~prs_call.is_none
    /\ Len(prs_call.statements) = 2

\* one malformed statement: a misplaced symbol or a missing semicolon
C3_Malformed == {<<Kw("PLUS")>>, <<Kw("EQUAL")>>, <<NumberSym>>, <<IdentSym>>}

C3_WellFormed == <<Kw("PRINT"), NumberSym, Kw("SEMICOLON")>>

\* C3: a malformed statement followed by the well-formed "print 1;" yields
\* exactly one diagnostic, and the print statement as its own node of the
\* returned tree.
C3_NoCascade ==
    (Parsed /\ arg_limit = DefaultLimit
        /\ \E m \in C3_Malformed : arg_tokens = MkTokens(m \o C3_WellFormed)) =>
        /\ prs_call.ret = "pair"
        /\ ~prs_call.is_none
        /\ Len(prs.err.queue) = 1
        /\ Len(prs_call.statements) >= 1
        /\ prs_call.statements[Len(prs_call.statements)] =
               Printer(Literal(arg_tokens[3]))

C4_Node(op, left, operator, right) ==
    IF op \in {"OR", "AND"} THEN Logical(left, operator, right)
    ELSE Binary(left, operator, right)

\* C4: for every binary operator op, "a op b op c ;" parses without a
\* diagnostic to the left-associative node (op (op a b) c).
C4_LeftAssociative ==
    \A op \in BinaryOps :
        (Parsed /\ arg_tokens = MkTokens(BinarySyms(op, op))) =>
            /\ prs_call.ret = "pair"
            /\ prs.err.queue = <<>>
            /\ prs_call.statements =
                   <<Generic(C4_Node(op,
                        C4_Node(op, Literal(arg_tokens[1]), arg_tokens[2],
                                Variable(arg_tokens[3])),
                        arg_tokens[4], Literal(arg_tokens[5])))>>

NotLvalue == "assignment target is not an l-value"

\* the tree of a right side of AssignValues whose first token is token k
C18_Value(r, k) ==
    IF Len(r) = 1 THEN Literal(arg_tokens[k])
    ELSE Assignment(arg_tokens[k], Literal(arg_tokens[k + 2]))

\* C18: while the handler has room for the diagnostics, "l = r ;" parses to
\* an Assignment node exactly when l is a bare variable: the node then
\* carries the variable's token and the right side, nested to the right,
\* and nothing is pushed.  For every other l the 'not an l-value'
\* diagnostic is pushed on the line of the token after r, the statement,
\* if one is returned, is the left side and no Assignment, and a statement
\* that follows is parsed as its own node.
C18_AssignmentIffVariable ==
    \A l \in AssignTargets, r \in AssignValues, rest \in {<<>>, PrintSyms} :
        (/\ Parsed
         /\ prs.err.limit = arg_limit
         /\ arg_tokens =
                MkTokens(l \o <<Kw("EQUAL")>> \o r \o <<Kw("SEMICOLON")>>
                             \o rest)) =>
            LET n == Len(l) + 1 + Len(r) + 1
                stmts == prs_call.statements
            IN  /\ prs_call.ret = "pair"
                /\ IF l = <<IdentSym>>
                   THEN /\ prs.err.queue = <<>>
                        /\ ~prs_call.is_none
                        /\ stmts[1] =
                               Generic(Assignment(arg_tokens[1],
                                                  C18_Value(r, 3)))
                   ELSE /\ prs.err.queue # <<>>
                        /\ prs.err.queue[1] =
                               Rendered(arg_tokens[n].line, NotLvalue)
                        /\ ~prs_call.is_none =>
                               /\ stmts[1].kind = "Generic"
                               /\ stmts[1].expr.kind \in
                                      {"Literal", "Grouping", "Binary"}
                /\ rest # <<>> =>
                       /\ ~prs_call.is_none
                       /\ Len(stmts) = 2
                       /\ stmts[2] = Printer(Literal(arg_tokens[n + 2]))

\* "( x ) = 1 ; print 1 ;": the diagnostic, the grouping kept as the
\* statement, and the print statement after it
C18_Witness ==
    /\ Parsed
    /\ arg_limit = DefaultLimit
    /\ arg_tokens =
           MkTokens(<<Kw("LEFT_PAREN"), IdentSym, Kw("RIGHT_PAREN"),
                      Kw("EQUAL"), NumberSym, Kw("SEMICOLON")>> \o PrintSyms)
    /\ prs.err.queue[1] = Rendered(6, NotLvalue)
    /\ prs_call.statements[1] = Generic(Grouping(Variable(arg_tokens[2])))
    /\ prs_call.statements[2].kind = "Printer"

\* the blocks of BlockSyms that "}" never closes before the end marker
C19_Unclosed ==
    {<<Kw("LEFT_BRACE")>>,
     <<Kw("LEFT_BRACE")>> \o PrintSyms,
     <<Kw("LEFT_BRACE"), Kw("PRINT"), NumberSym>>,
     <<Kw("LEFT_BRACE"), Kw("PLUS")>>,
     PrintSyms \o <<Kw("LEFT_BRACE")>> \o PrintSyms,
     <<Kw("LEFT_BRACE"), Kw("LEFT_BRACE")>> \o PrintSyms
         \o <<Kw("RIGHT_BRACE")>>}

\* C19: for a block that is never closed before the end marker, the queue
\* parse returns holds the "expected '}' at end of file" diagnostic,
\* whatever else it holds.
C19_MissingBraceReported ==
    (/\ Parsed
     /\ arg_limit = DefaultLimit
     /\ \E syms \in C19_Unclosed : arg_tokens = MkTokens(syms)) =>
        \E k \in 1 .. Len(prs.err.queue), j \in 1 .. Len(arg_tokens) :
            prs.err.queue[k] =
                Rendered(arg_tokens[j].line, "expected '}' at end of file")

\* C21: parse returns, and every iteration of the declaration loops of
\* program and block_stmt that returns normally has consumed a token, the
\* iterations that start on "class" included.
C21_EveryIterationConsumes ==
    Parsed =>
        /\ prs_call.exc # "NoReturn"
        /\ prs_call.stalls = 0

\* C22: the cursor of the parser ends within the tokens, neither the
\* assertion of advance nor that of prev_token fails, and when program
\* returns normally the current token is the end marker.  (The cursor
\* starts at 0 and only advance moves it, by one and under its assertion,
\* so it is in range throughout when it ends in range.)
C22_CursorInRange ==
    Parsed =>
        /\ prs.i >= 0
        /\ prs.i <= Len(arg_tokens) - 1
        /\ prs_call.exc # "AssertionError"
        /\ (prs_call.ret = "pair" /\ ~prs_call.is_none) =>
               arg_tokens[prs.i + 1].type = "EOF"

\* "{": primary calls prev_token on the end marker, at index 1, and trap
\* stops on the end marker, the last index
C22_Witness ==
    /\ Parsed
    /\ arg_limit = DefaultLimit
    /\ arg_tokens = MkTokens(<<Kw("LEFT_BRACE")>>)
    /\ prs.i = Len(arg_tokens) - 1
    /\ prs.err.queue = <<Rendered(1, "misplaced symbol '{' at end of file")>>
    /\ prs_call.is_none

(***************************************************************************)
(* Claims about SpecRun.                                                   *)
(***************************************************************************)
\* a program of print statements of literals: no statement of it can fail
PrintsOnly(items) ==
    /\ Len(items) >= 1
    /\ \A k \in 1 .. Len(items) :
           items[k].kind = "Printer" /\ items[k].expr.kind = "Literal"

Printed(items) ==
    [k \in 1 .. Len(items) |-> PyStr(items[k].expr.val.literal)]

\* C5: when no statement of the program fails, run executes every
\* statement once in source order and reports success (for a program of
\* print statements: it prints their values in order and nothing escapes);
\* Interpreter.interpret on that program reports no failure.
C5_RunsEveryStatementInOrder ==
    \A prog \in Program :
        PrintsOnly(prog.items) =>
            /\ run_call.op = "run" =>
                   /\ run_call.exc = "none"
                   /\ run_call.stdout = Printed(prog.items)
            /\ (run_call.op = "interpret" /\ run_call.node = prog) =>
                   /\ run_call.ret = "pair"
                   /\ run_call.err.queue = <<>>

(***************************************************************************)
(* Claims about SpecEnv.                                                   *)
(***************************************************************************)
\* the scopes from env to the root, nearest first
RECURSIVE Chain(_, _)
Chain(heap, env) ==
    IF env = 0 THEN <<>> ELSE <<env>> \o Chain(heap, heap[env].parent)

Binds(heap, env, key) == key \in DOMAIN heap[env].map

Bound(heap, env, key) ==
    \E k \in 1 .. Len(Chain(heap, env)) : Binds(heap, Chain(heap, env)[k], key)

\* the nearest scope of the chain that binds key
Nearest(heap, env, key) ==
    LET c == Chain(heap, env)
        k == CHOOSE k \in 1 .. Len(c) :
                 /\ Binds(heap, c[k], key)
                 /\ \A j \in 1 .. k - 1 : ~Binds(heap, c[j], key)
    IN  c[k]

\* after differs from before in the binding of key in scope at most, which
\* is val; no scope gains or loses a name
OnlyRebound(before, after, at, key, val) ==
    /\ Len(after) = Len(before)
    /\ \A j \in 1 .. Len(before) :
           /\ after[j].parent = before[j].parent
           /\ DOMAIN after[j].map = DOMAIN before[j].map
           /\ \A n \in DOMAIN before[j].map :
                  after[j].map[n] =
                      IF j = at /\ n = key THEN val ELSE before[j].map[n]

\* C6: a block whose statements cannot fail runs to its end, and every
\* enclosing environment's map is afterwards what it was before: the
\* declarations inside went to the child environment only.
C6_BlockScoping ==
    (env_call.op = "interpret" /\ env_call.node.kind = "Block") =>
        /\ env_call.exc = "none"
        /\ envs = env_call.before

UndeclaredMsg(key) == "variable '" \o key \o "' not declared prior to assignment"

\* C7: modify never creates a binding.  When a scope of the chain binds the
\* name, the nearest such binding is overwritten and nothing else changes;
\* when none does, modify fails with every map unchanged, and Assignment
\* surfaces the failure as the 'not declared prior to assignment' error.
C7_ModifyNeverCreates ==
    LET c == env_call
        b == c.before
        assign == c.op = "interpret" /\ c.node.kind = "Assignment"
                      /\ c.node.rval.kind = "Literal"
        key == IF assign THEN c.node.lval.lexeme ELSE c.key
        val == IF assign THEN c.node.rval.val.literal ELSE c.val
    IN  (c.op = "modify" \/ assign) =>
            IF Bound(b, c.env, key)
            THEN /\ c.exc = "none"
                 /\ OnlyRebound(b, envs, Nearest(b, c.env, key), key, val)
                 /\ c.pushes = <<>>
                 /\ assign => c.ret = val
            ELSE /\ envs = b
                 /\ c.op = "modify" => c.exc = "KeyError"
                 /\ assign =>
                        /\ c.exc = "RuntimeError"
                        /\ Len(c.pushes) = 1
                        /\ c.pushes[1].line = c.node.lval.line
                        /\ c.pushes[1].error = UndeclaredMsg(key)

\* a modify from a child scope whose own binding shadows its parent's
C7_Witness ==
    /\ env_call.op = "modify"
    /\ env_call.env # 1
    /\ Binds(env_call.before, env_call.env, env_call.key)
    /\ Binds(env_call.before, env_call.before[env_call.env].parent,
             env_call.key)
    /\ env_call.before[env_call.env].map[env_call.key] # env_call.val
    /\ env_call.exc = "none"

UndefinedMsg(key) == "attempted to access undefined variable '" \o key \o "'"

\* C8: search returns the value of the nearest binding of the name on the
\* chain (nil included) and fails exactly when no scope of the chain binds
\* it; Variable turns the failure into a runtime error whose diagnostic
\* carries the variable's name and line.
C8_SearchNearestBinding ==
    LET c == env_call
        b == c.before
        var == c.op = "interpret" /\ c.node.kind = "Variable"
        key == IF var THEN c.node.name.lexeme ELSE c.key
    IN  (c.op = "search" \/ var) =>
            /\ envs = b
            /\ IF Bound(b, c.env, key)
               THEN /\ c.exc = "none"
                    /\ c.ret = b[Nearest(b, c.env, key)].map[key]
                    /\ c.pushes = <<>>
               ELSE /\ c.op = "search" => c.exc = "KeyError"
                    /\ var =>
                           /\ c.exc = "RuntimeError"
                           /\ Len(c.pushes) = 1
                           /\ c.pushes[1].line = c.node.name.line
                           /\ c.pushes[1].error = UndefinedMsg(key)
                           /\ c.pushes[1].accepted =>
                                  rt.queue[Len(rt.queue)] =
                                      Rendered(c.node.name.line,
                                               UndefinedMsg(key))

\* a search from a child scope that binds the name to nil over a parent
\* that binds it to a number
C8_Witness ==
    /\ env_call.op = "search"
    /\ env_call.env # 1
    /\ Binds(env_call.before, env_call.env, env_call.key)
    /\ Binds(env_call.before, env_call.before[env_call.env].parent,
             env_call.key)
    /\ env_call.before[env_call.env].map[env_call.key] = Nil
    /\ env_call.before[env_call.before[env_call.env].parent].map[env_call.key]
           # Nil
    /\ env_call.ret = Nil

(***************************************************************************)
(* Claims about SpecEval.                                                  *)
(***************************************************************************)
\* the nodes of EvalNodes of the classes that node.py defines
Defined(node) == node.kind # "Logical"

\* C12: evaluating an expression ends in a runtime value, or in a runtime
\* failure with one diagnostic pushed on the runtime handler; no other
\* exception leaves node.interpret or Interpreter.interpret, a division by
\* zero included.
C12_ValueOrDiagnostic ==
    /\ (ev_call.op = "node" /\ Defined(ev_call.node)) =>
           \/ /\ ev_call.ret = "value"
              /\ ev_call.pushes = <<>>
           \/ /\ ev_call.exc = "RuntimeError"
              /\ Len(ev_call.pushes) = 1
              /\ ev_call.pushes[1].accepted
    /\ (ev_call.op = "itr" /\ Defined(ev_call.node)
            /\ ev_call.before.queue = <<>>) =>
           /\ ev_call.ret = "pair"
           /\ ev_call.is_none => Len(ev_call.err.queue) = 1

\* an evaluation that started on an empty runtime handler
Evaluated ==
    \/ ev_call.op = "node"
    \/ ev_call.op = "itr" /\ ev_call.before.queue = <<>>

\* the evaluation returned the value v and pushed nothing
Yields(v) ==
    /\ ev_call.ret \in {"value", "pair"}
    /\ ev_call.exc = "none"
    /\ ev_call.v = v
    /\ ev_call.pushes = <<>>
    /\ ev_call.err.queue = <<>>

\* C13: == and != on two literal operands of any runtime types return a
\* boolean and never fail; == is true exactly when the operands are the
\* same value of the same type, so operands of different types are unequal.
C13_EqualityTypeAware ==
    (/\ Evaluated
     /\ ev_call.node.kind = "Binary"
     /\ ev_call.node.operator.type \in {"EQUAL_EQUAL", "BANG_EQUAL"}) =>
        LET l == ev_call.node.left.val.literal
            r == ev_call.node.right.val.literal
        IN  /\ Yields(ev_call.v)
            /\ ev_call.v.t = "bool"
            /\ l.t # r.t =>
                   ev_call.v =
                       Bool(ev_call.node.operator.type = "BANG_EQUAL")

\* C14: ! on a literal operand returns true when the operand is nil or
\* false and returns false for every other value, the number 0 and the
\* empty string included.
C14_BangFalsy ==
    (/\ Evaluated
     /\ ev_call.node.kind = "Unary"
     /\ ev_call.node.operator.type = "BANG") =>
        Yields(Bool(ev_call.node.right.val.literal \in {Nil, Bool(FALSE)}))

\* the text handle_binary formats for operands of mismatched types
MismatchText(lexeme, lval, rval) ==
    "cannot perform " \o lexeme \o " on mismatched types of " \o PyStr(lval)
        \o " and " \o PyStr(rval)

\* C15: a binary operator other than == and != on two literal operands
\* returns a value when both are numbers (a zero divisor set aside),
\* returns the concatenation when it is + on two strings, and for every
\* other pair of operand types fails with one diagnostic on the
\* operator's line whose text names the operator and the two operands.
C15_TypeErrorCarriesOperands ==
    (/\ Evaluated
     /\ ev_call.node.kind = "Binary"
     /\ ev_call.node.operator.type \notin {"EQUAL_EQUAL", "BANG_EQUAL"}) =>
        LET l == ev_call.node.left.val.literal
            r == ev_call.node.right.val.literal
            operator == ev_call.node.operator
            text == MismatchText(operator.lexeme, l, r)
        IN  IF l.t = "float" /\ r.t = "float"
            THEN (operator.type = "SLASH" /\ r.n = 0)
                     \/ (Yields(ev_call.v) /\ ev_call.v.t \in {"float", "bool"})
            ELSE IF operator.type = "PLUS" /\ l.t = "str" /\ r.t = "str"
            THEN Yields(Str(l.s \o r.s))
            ELSE /\ ev_call.err.queue = <<Rendered(operator.line, text)>>
                 /\ ev_call.op = "node" => ev_call.exc = "RuntimeError"
                 /\ ev_call.op = "itr" =>
                        ev_call.ret = "pair" /\ ev_call.is_none

\* C16: a logical operator whose left operand decides (or on a truthy
\* left, and on a falsy left) returns the left operand's value, the right
\* operand not evaluated: nothing is pushed, nothing is raised and no
\* variable changes.  Otherwise it returns the value of the right operand.
C16_ShortCircuit ==
    (Evaluated /\ ev_call.node.kind = "Logical") =>
        LET l == ev_call.node.left.val.literal
            right == ev_call.node.right
            truthy == l \notin {Nil, Bool(FALSE)}
            decided == (ev_call.node.operator.type = "OR") <=> truthy
        IN  /\ decided => (Yields(l) /\ ev_call.envs = EvalGlobals)
            /\ (~decided /\ right.kind = "Literal") =>
                   Yields(right.val.literal)

\* the layer of the grammar that takes a binary operator, deeper layers
\* binding tighter
Layer(op) ==
    CASE op = "OR" -> -1
      [] op = "AND" -> 0
      [] op \in {"EQUAL_EQUAL", "BANG_EQUAL"} -> 1
      [] op \in {"GREATER", "GREATER_EQUAL", "LESS", "LESS_EQUAL"} -> 2
      [] op \in {"PLUS", "MINUS"} -> 3
      [] op \in {"STAR", "SLASH"} -> 4

ArithOps == {"PLUS", "MINUS", "STAR", "SLASH"}

\* x op y in the arithmetic of fractions
Arith(op, x, y) ==
    CASE op = "PLUS" -> Rat(x.n * y.d + y.n * x.d, x.d * y.d)
      [] op = "MINUS" -> Rat(x.n * y.d - y.n * x.d, x.d * y.d)
      [] op = "STAR" -> Rat(x.n * y.n, x.d * y.d)
      [] op = "SLASH" -> Rat(x.n * y.d, x.d * y.n)

\* the node the parser builds for an operator token
OpNode(left, operator, right) ==
    IF operator.type \in {"OR", "AND"} THEN Logical(left, operator, right)
    ELSE Binary(left, operator, right)

\* C17: "1 op1 2 op2 3 ;" parses to (op1 1 (op2 2 3)) when op2 belongs to
\* a deeper layer than op1 and to (op2 (op1 1 2) 3) when op1 belongs to a
\* deeper layer than op2 or both to one layer of equality, comparison,
\* term or factor; for two arithmetic operators both evaluators return
\* the value standard arithmetic gives, 7 for "1 + 2 * 3 ;"; and
\* "a + b == c * d ;" parses to (== (+ a b) (* c d)), true where a + b and
\* c * d are both 6.
C17_PrecedenceRespected ==
    ev_call.op = "parse" =>
        LET toks == ev_call.tokens
            Lit(k) == Literal(toks[k])
            Var(k) == Variable(toks[k])
        IN  /\ \A op1 \in BinaryOps, op2 \in BinaryOps :
                   (/\ toks = MkTokens(ExprSyms(op1, op2))
                    /\ Layer(op1) = Layer(op2) => Layer(op1) >= 1) =>
                       LET deeper == Layer(op2) > Layer(op1)
                           value ==
                               IF deeper
                               THEN Arith(op1, Num(1),
                                          Arith(op2, Num(2), Num(3)))
                               ELSE Arith(op2, Arith(op1, Num(1), Num(2)),
                                          Num(3))
                       IN  /\ ev_call.node =
                                  IF deeper
                                  THEN OpNode(Lit(1), toks[2],
                                              OpNode(Lit(3), toks[4], Lit(5)))
                                  ELSE OpNode(OpNode(Lit(1), toks[2], Lit(3)),
                                              toks[4], Lit(5))
                           /\ (op1 \in ArithOps /\ op2 \in ArithOps) =>
                                  /\ Yields(value)
                                  /\ ev_call.itr =
                                         [ret |-> "pair", v |-> value,
                                          exc |-> "none"]
                           /\ (op1 = "PLUS" /\ op2 = "STAR") =>
                                  ev_call.v = Num(7)
            /\ toks = MkTokens(NamesSyms) =>
                   /\ ev_call.node =
                          Binary(Binary(Var(1), toks[2], Var(3)), toks[4],
                                 Binary(Var(5), toks[6], Var(7)))
                   /\ Yields(Bool(TRUE))

\* "1 + 2 * 3 ;" parsed to (+ 1 (* 2 3)) and evaluated to 7 both ways
C17_Witness ==
    /\ ev_call.op = "parse"
    /\ ev_call.tokens = MkTokens(ExprSyms("PLUS", "STAR"))
    /\ ev_call.node.operator.type = "PLUS"
    /\ ev_call.node.right.kind = "Binary"
    /\ ev_call.node.right.operator.type = "STAR"
    /\ ev_call.v = Num(7)
    /\ ev_call.itr.v = Num(7)

\* the nodes on which Interpreter.interpret pushes a diagnostic
ItrPushes(node) ==
    \/ node.kind \notin jmp_table
    \/ /\ node.kind = "Unary"
       /\ node.operator.type = "MINUS"
       /\ node.right.val.literal.t # "float"

\* C20: the handler of an Interpreter has capacity 1 and holds at most one
\* diagnostic after any number of calls of interpret; a call that pushes
\* on the full handler leaves the queued diagnostic as it is, and a call
\* that pushes on the empty handler queues one.
C20_AtMostOneDiagnostic ==
    /\ ev_itr.err.limit = RuntimeLimit
    /\ Len(ev_itr.err.queue) <= 1
    /\ ev_call.op = "itr" =>
           /\ ev_call.err = ev_itr.err
           /\ ev_call.before.queue # <<>> => ev_call.err = ev_call.before
           /\ (ev_call.before.queue = <<>> /\ ItrPushes(ev_call.node)) =>
                  Len(ev_call.err.queue) = 1

\* the handler holds the type error of "-"; interpret of the undeclared y
\* pushes the internal error, which is rejected
C20_Witness ==
    /\ ev_call.op = "itr"
    /\ ev_call.node = Variable(IdTok("y"))
    /\ ev_call.before.queue =
           <<Rendered(1, "operand of '-' must be a number")>>
    /\ ev_call.ret = "pair"
    /\ ev_call.is_none
    /\ ev_itr.err.queue = ev_call.before.queue

====
